---- MODULE Spec2Model ----
(***************************************************************************)
(* GeoExplorer: the client-side round/score state machine of script.js.   *)
(*                                                                         *)
(* Distances are fixed-point: one unit is 0.01 km, so 0.25 km is 25 and    *)
(* 2000.01 km is 200001.  Locations are numbered 0..4 in the order of the  *)
(* `locations` array.  A value that JavaScript holds as null, undefined or *)
(* {} is the empty sequence <<>>; a present value v is <<v>>.              *)
(*                                                                         *)
(* Every listener runs to completion as one step.  fetchImageForLocation   *)
(* is the one asynchronous operation: its synchronous part belongs to      *)
(* loadNewRound, and what follows its awaits is one step per outcome,      *)
(* taken in any order for the requests in flight.  alert() is modal: while *)
(* it is up no other listener or continuation runs.                        *)
(***************************************************************************)
EXTENDS Integers, Sequences, FiniteSets, Bags

\* ---- bounds of the model ----
\* Map clicks land on ClickPoints 0..MaxClick.
MaxClick == 1
\* At most MaxPending image requests are in flight at once.
MaxPending == 2
\* Distances fed to calculateScore on its own range over 0..MaxDistance.
MaxDistance == 200100
\* Query parameters of a request are strings of at most MaxQueryLen characters.
MaxQueryLen == 2

\* ---- program constants ----
\* locations.length
NumLocations == 5
\* control flow of calculateScore, in units of 0.01 km
NearLimit == 25
FarLimit == 200000
MaxScore == 5000
\* fixed-point units to the degree, and bboxDelta = 0.01 degree in those units
Scale == 10000
BboxDelta == 100

Null == <<>>
NotComputed == 0 - 1

VARIABLES
    currentRound,          \* let currentRound
    totalScore,            \* let totalScore
    currentLocationData,   \* Null for {}, else <<k>>: the image resolved for location k
    guessMarker,           \* Null, else <<p>>: marker at click point p
    actualLocationMarker,  \* Null, else <<k>>: green marker at the image of location k
    resultPolyline,        \* Null, else <<p, k>>
    mapClicksEnabled,
    submitDisabled,        \* submitGuessBtn.disabled
    submitDisplay,         \* submitGuessBtn.style.display
    nextDisplay,           \* nextRoundBtn.style.display
    playAgainDisplay,      \* playAgainBtn.style.display
    imageContainer,        \* what imageContainer.innerHTML shows
    scoreDisplay,          \* scoreDisplay.textContent
    roundDisplay,          \* roundDisplay.textContent
    mapView,               \* "world" after setView([20,0],2), "fit" after fitBounds
    alertOpen,             \* the modal alert() of the submit handler is showing
    pending,               \* image requests in flight: [loc, stale] -> how many
    distance,              \* the submit handler's `distance` (0.01 km), or NotComputed
    scoreForRound,         \* the submit handler's `scoreForRound`, or NotComputed
    roundScores,           \* history: the bag of scoreForRound values added since the game started
    advances,              \* history: Next Round clicks since the game started
    resolution,            \* history: outcome of the current round's own image request
    server                 \* one request to /api/getMapillaryImage, as its handler sees it

vars == <<currentRound, totalScore, currentLocationData, guessMarker,
          actualLocationMarker, resultPolyline, mapClicksEnabled, submitDisabled,
          submitDisplay, nextDisplay, playAgainDisplay, imageContainer,
          scoreDisplay, roundDisplay, mapView, alertOpen, pending, distance,
          scoreForRound, roundScores, advances, resolution, server>>

Rounds == 0 .. (NumLocations - 1)
Clicks == 0 .. MaxClick
Requests == [loc : Rounds, stale : BOOLEAN]

\* ---- scoring ----

\* haversineDistance(click point, image of location), rounded to 0.01 km.
\* (script.js declares lon1 twice in that function; the table holds the values
\* of the formula it spells out.)
\* Click points: 0 New York City, 1 Paris, 2 (40.7000, -74.0100), 3 London,
\* 4 Tokyo, 5 Sydney.  The image of location k is geotagged at locations[k].
DistanceTable ==
    << <<0, 557022, 1084881, 1598876, 583724>>,
       <<583724, 34356, 971207, 1696050, 0>>,
       <<146, 557138, 1084992, 1598832, 583836>>,
       <<557022, 0, 955871, 1699393, 34356>>,
       <<1084881, 955871, 0, 782662, 971207>>,
       <<1598876, 1699393, 782662, 0, 1696050>> >>

haversineDistance(p, k) == DistanceTable[p + 1][k + 1]

Max(a, b) == IF a >= b THEN a ELSE b

\* Mutant: Math.floor in place of Math.round.
MathFloor200(n) == n \div 200

\* Math.round of n/200: the nearest integer, halves upwards.
MathRound200(n) == (n + 100) \div 200

\* 5000 - distanceKm * 2.5, as a numerator over 200 with d in units of 0.01 km.
LinearScore200(d) == 200 * MaxScore - 5 * d

\* Mutant: neither the far cut-off nor the clamp at zero.
calculateScoreUnclamped(d) ==
    IF d < NearLimit THEN MaxScore
    ELSE MathRound200(LinearScore200(d))

\* Mutant: the near boundary taken inclusively.
calculateScoreInclusive(d) ==
    IF d <= NearLimit THEN MaxScore
    ELSE IF d > FarLimit THEN 0
    ELSE Max(0, MathRound200(LinearScore200(d)))

calculateScore(d) ==
    IF d < NearLimit THEN MaxScore
    ELSE IF d > FarLimit THEN 0
    ELSE Max(0, MathRound200(LinearScore200(d)))

\* ---- image requests ----

NoRequests == [r \in Requests |-> 0]

RECURSIVE SumOver(_, _)
SumOver(f, S) ==
    IF S = {} THEN 0
    ELSE LET x == CHOOSE y \in S : TRUE IN f[x] + SumOver(f, S \ {x})

InFlight == SumOver(pending, Requests)

\* Every request in flight now belongs to a superseded round.
Superseded(p) ==
    [r \in Requests |->
        IF r.stale THEN p[r] + p[[loc |-> r.loc, stale |-> FALSE]] ELSE 0]

\* fetch(`/api/getMapillaryImage?...`) for location k, after superseding the rest.
IssueFetch(p, k) ==
    [Superseded(p) EXCEPT ![[loc |-> k, stale |-> FALSE]] = 1]

Take(p, r) == [p EXCEPT ![r] = p[r] - 1]

\* ---- loadNewRound ----

\* Mutant: the game is declared over one round early.
AllRoundsPlayedEarly(cr) == cr >= NumLocations - 1

\* if (currentRound >= locations.length)
AllRoundsPlayed(cr) == cr >= NumLocations

\* Mutant: the game-over branch leaves the Next Round button as it is.
loadGameOverKeepsNext(ts) ==
    /\ imageContainer' = [kind |-> "gameover", loc |-> NumLocations]
    /\ submitDisplay' = "none"
    /\ playAgainDisplay' = "block"
    /\ roundDisplay' = [kind |-> "gameover", n |-> NumLocations]
    /\ mapClicksEnabled' = FALSE
    /\ scoreDisplay' = [kind |-> "final", total |-> ts]
    /\ pending' = Superseded(pending)
    /\ resolution' = "none"
    /\ UNCHANGED <<currentLocationData, guessMarker, actualLocationMarker,
                   resultPolyline, submitDisabled, mapView, distance,
                   scoreForRound, nextDisplay>>

\* The game-over branch of loadNewRound, entered with totalScore = ts.
loadGameOver(ts) ==
    /\ imageContainer' = [kind |-> "gameover", loc |-> NumLocations]
    /\ submitDisplay' = "none"
    /\ nextDisplay' = "none"
    /\ playAgainDisplay' = "block"
    /\ roundDisplay' = [kind |-> "gameover", n |-> NumLocations]
    /\ mapClicksEnabled' = FALSE
    /\ scoreDisplay' = [kind |-> "final", total |-> ts]
    /\ pending' = Superseded(pending)
    /\ resolution' = "none"
    /\ UNCHANGED <<currentLocationData, guessMarker, actualLocationMarker,
                   resultPolyline, submitDisabled, mapView, distance,
                   scoreForRound>>

\* Mutant: the new round does not switch map clicks back on.
loadRoundClicksOff(cr, ts, pad) ==
    /\ roundDisplay' = [kind |-> "round", n |-> cr + 1]
    /\ scoreDisplay' = [kind |-> "score", total |-> ts]
    /\ imageContainer' = [kind |-> "loading", loc |-> cr]
    /\ pending' = IssueFetch(pending, cr)
    /\ resolution' = "pending"
    /\ guessMarker' = Null
    /\ actualLocationMarker' = Null
    /\ resultPolyline' = Null
    /\ submitDisabled' = TRUE
    /\ submitDisplay' = "block"
    /\ nextDisplay' = "none"
    /\ mapView' = "world"
    /\ playAgainDisplay' = pad
    /\ distance' = NotComputed
    /\ scoreForRound' = NotComputed
    /\ UNCHANGED <<currentLocationData, mapClicksEnabled>>

\* The rest of loadNewRound: round cr starts, with the Play Again button
\* displayed as pad.
loadRound(cr, ts, pad) ==
    /\ roundDisplay' = [kind |-> "round", n |-> cr + 1]
    /\ scoreDisplay' = [kind |-> "score", total |-> ts]
    /\ imageContainer' = [kind |-> "loading", loc |-> cr]
    /\ pending' = IssueFetch(pending, cr)
    /\ resolution' = "pending"
    /\ guessMarker' = Null
    /\ actualLocationMarker' = Null
    /\ resultPolyline' = Null
    /\ mapClicksEnabled' = TRUE
    /\ submitDisabled' = TRUE
    /\ submitDisplay' = "block"
    /\ nextDisplay' = "none"
    /\ mapView' = "world"
    /\ playAgainDisplay' = pad
    /\ distance' = NotComputed
    /\ scoreForRound' = NotComputed
    /\ UNCHANGED currentLocationData

\* loadNewRound() entered with currentRound = cr and totalScore = ts.
loadNewRound(cr, ts, pad) ==
    IF AllRoundsPlayed(cr) THEN loadGameOver(ts) ELSE loadRound(cr, ts, pad)

\* ---- the serverless handler of /api/getMapillaryImage ----
\* A query parameter is Null when missing, else <<str>> with str a sequence of
\* characters.  Numbers are fixed-point, Scale units to the degree; NaN is Null
\* and a number v is <<v>>.

Chars == {"0", "1", "-", "."}
Digits == {"0", "1"}
DigitValue(c) == IF c = "1" THEN 1 ELSE 0

RECURSIVE StringsUpTo(_)
StringsUpTo(n) ==
    IF n = 0 THEN {<<>>}
    ELSE LET shorter == StringsUpTo(n - 1)
         IN  shorter \cup {Append(t, c) : t \in shorter, c \in Chars}

QueryValues == {Null} \cup {<<t>> : t \in StringsUpTo(MaxQueryLen)}

\* The longest prefix of str made of digits.
RECURSIVE LeadingDigits(_)
LeadingDigits(str) ==
    IF str = <<>> \/ str[1] \notin Digits THEN <<>>
    ELSE <<str[1]>> \o LeadingDigits(Tail(str))

RECURSIVE Drop(_, _)
Drop(str, n) == IF n = 0 THEN str ELSE Drop(Tail(str), n - 1)

\* The value of a digit string as a whole number.
RECURSIVE WholeValue(_)
WholeValue(ds) ==
    IF ds = <<>> THEN 0
    ELSE 10 * WholeValue(SubSeq(ds, 1, Len(ds) - 1)) + DigitValue(ds[Len(ds)])

\* The value of a digit string after the point, in units of 1/unit.
RECURSIVE FractionValue(_, _)
FractionValue(ds, unit) ==
    IF ds = <<>> \/ unit = 1 THEN 0
    ELSE DigitValue(ds[1]) * (unit \div 10) + FractionValue(Tail(ds), unit \div 10)

\* parseFloat(str): the number spelt by the longest numeric prefix (sign,
\* digits, point, digits), NaN when there is none.  What follows the prefix is
\* ignored.
parseFloat(str) ==
    LET neg == str # <<>> /\ str[1] = "-"
        body == IF neg THEN Tail(str) ELSE str
        whole == LeadingDigits(body)
        rest == Drop(body, Len(whole))
        frac == IF rest # <<>> /\ rest[1] = "." THEN LeadingDigits(Tail(rest))
                ELSE <<>>
        magnitude == WholeValue(whole) * Scale + FractionValue(frac, Scale)
    IN  IF whole = <<>> /\ frac = <<>> THEN Null
        ELSE IF neg THEN <<0 - magnitude>> ELSE <<magnitude>>

\* !lat: a missing parameter or the empty string
Falsy(q) == q = Null \/ q = <<Null>>

\* bbox=${minLon},${minLat},${maxLon},${maxLat}
\* Mutant: latitude first.
BoundingBoxLatFirst(latNum, lonNum) ==
    <<latNum - BboxDelta, lonNum - BboxDelta, latNum + BboxDelta, lonNum + BboxDelta>>

BoundingBox(latNum, lonNum) ==
    <<lonNum - BboxDelta, latNum - BboxDelta, lonNum + BboxDelta, latNum + BboxDelta>>

\* pc: where the handler stands; provider: the Response of fetch(); json: what
\* response.json() gave, by kind; responses: what was sent through res.
ServerIdle ==
    [pc |-> "idle", token |-> FALSE, lat |-> Null, lon |-> Null,
     latNum |-> Null, lonNum |-> Null, bbox |-> Null, calls |-> 0,
     provider |-> Null, json |-> Null, responses |-> <<>>]

\* res.status(status).json(body); the handler then returns.
Respond(sv, status, body) ==
    [sv EXCEPT !.pc = "done",
               !.responses = Append(@, [status |-> status, body |-> body])]

ErrorBody(msg) == [error |-> msg]

\* Mutant: the coordinates are validated before the credential is looked at.
ValidateCoordinatesFirst(sv) ==
    IF Falsy(sv.lat) \/ Falsy(sv.lon)
    THEN Respond(sv, 400, ErrorBody("required"))
    ELSE IF ~sv.token
    THEN Respond(sv, 500, ErrorBody("not configured"))
    ELSE LET latNum == parseFloat(sv.lat[1])
             lonNum == parseFloat(sv.lon[1])
         IN  IF latNum = Null \/ lonNum = Null
             THEN Respond(sv, 400, ErrorBody("invalid"))
             ELSE [sv EXCEPT !.pc = "awaitFetch",
                             !.latNum = latNum,
                             !.lonNum = lonNum,
                             !.bbox = <<BoundingBox(latNum[1], lonNum[1])>>,
                             !.calls = @ + 1]

\* The handler up to `await fetch(mapillaryApiUrl)`.
Validate(sv) ==
    IF ~sv.token
    THEN Respond(sv, 500, ErrorBody("not configured"))
    ELSE IF Falsy(sv.lat) \/ Falsy(sv.lon)
    THEN Respond(sv, 400, ErrorBody("required"))
    ELSE LET latNum == parseFloat(sv.lat[1])
             lonNum == parseFloat(sv.lon[1])
         IN  IF latNum = Null \/ lonNum = Null
             THEN Respond(sv, 400, ErrorBody("invalid"))
             ELSE [sv EXCEPT !.pc = "awaitFetch",
                             !.latNum = latNum,
                             !.lonNum = lonNum,
                             !.bbox = <<BoundingBox(latNum[1], lonNum[1])>>,
                             !.calls = @ + 1]

\* ---- the state after the DOMContentLoaded handler has run ----
\* The handler ends in loadNewRound() with currentRound = 0.  The Play Again
\* button is hidden until loadNewRound shows it (line 141) and is hidden again
\* by its own listener (line 296); the page itself is not among the sources.

Init ==
    /\ currentRound = 0
    /\ totalScore = 0
    /\ currentLocationData = Null
    /\ guessMarker = Null
    /\ actualLocationMarker = Null
    /\ resultPolyline = Null
    /\ mapClicksEnabled = TRUE
    /\ submitDisabled = TRUE
    /\ submitDisplay = "block"
    /\ nextDisplay = "none"
    /\ playAgainDisplay = "none"
    /\ imageContainer = [kind |-> "loading", loc |-> 0]
    /\ scoreDisplay = [kind |-> "score", total |-> 0]
    /\ roundDisplay = [kind |-> "round", n |-> 1]
    /\ mapView = "world"
    /\ alertOpen = FALSE
    /\ pending = IssueFetch(NoRequests, 0)
    /\ distance = NotComputed
    /\ scoreForRound = NotComputed
    /\ roundScores = EmptyBag
    /\ advances = 0
    /\ resolution = "pending"
    /\ server = ServerIdle

\* ---- event handlers ----

\* Mutant: the click listener does not test mapClicksEnabled.
MapClickUnguarded(p) ==
    /\ ~alertOpen
    /\ guessMarker' = <<p>>
    /\ submitDisabled' = FALSE
    /\ UNCHANGED <<currentRound, totalScore, currentLocationData,
                   actualLocationMarker, resultPolyline, mapClicksEnabled,
                   submitDisplay, nextDisplay, playAgainDisplay,
                   imageContainer, scoreDisplay, roundDisplay, mapView,
                   alertOpen, pending, distance, scoreForRound,
                   roundScores, advances, resolution, server>>

\* map.on('click'): place or move the guess marker at click point p.
MapClick(p) ==
    /\ ~alertOpen
    /\ IF ~mapClicksEnabled
       THEN UNCHANGED vars
       ELSE /\ guessMarker' = <<p>>
            /\ submitDisabled' = FALSE
            /\ UNCHANGED <<currentRound, totalScore, currentLocationData,
                           actualLocationMarker, resultPolyline, mapClicksEnabled,
                           submitDisplay, nextDisplay, playAgainDisplay,
                           imageContainer, scoreDisplay, roundDisplay, mapView,
                           alertOpen, pending, distance, scoreForRound,
                           roundScores, advances, resolution, server>>

\* Mutant: the controls are switched off before the guess is looked for.
RejectSubmitAfterDisable ==
    /\ alertOpen' = TRUE
    /\ submitDisabled' = TRUE
    /\ mapClicksEnabled' = FALSE
    /\ UNCHANGED <<currentRound, totalScore, currentLocationData,
                   guessMarker, actualLocationMarker, resultPolyline,
                   submitDisplay, nextDisplay, playAgainDisplay, imageContainer,
                   scoreDisplay, roundDisplay, mapView, pending, distance,
                   scoreForRound, roundScores, advances, resolution, server>>

\* if (!guessMarker) { alert(...); return; }
RejectSubmit ==
    /\ alertOpen' = TRUE
    /\ UNCHANGED <<currentRound, totalScore, currentLocationData,
                   guessMarker, actualLocationMarker, resultPolyline,
                   mapClicksEnabled, submitDisabled, submitDisplay,
                   nextDisplay, playAgainDisplay, imageContainer,
                   scoreDisplay, roundDisplay, mapView, pending, distance,
                   scoreForRound, roundScores, advances, resolution, server>>

\* Mutant: a submitted guess leaves the Submit button shown and enabled.
SubmitGuessStaysOpen ==
    /\ ~alertOpen
    /\ submitDisplay = "block"
    /\ IF guessMarker = Null
       THEN RejectSubmit
       ELSE /\ submitDisabled' = FALSE
            /\ mapClicksEnabled' = FALSE
            /\ submitDisplay' = "block"
            /\ nextDisplay' = "block"
            /\ IF currentLocationData = Null
               THEN /\ scoreDisplay' = [kind |-> "error", total |-> totalScore]
                    /\ UNCHANGED <<totalScore, actualLocationMarker,
                                   resultPolyline, mapView, distance,
                                   scoreForRound, roundScores>>
               ELSE LET d == haversineDistance(guessMarker[1], currentLocationData[1])
                        s == calculateScore(d)
                    IN  /\ distance' = d
                        /\ scoreForRound' = s
                        /\ totalScore' = totalScore + s
                        /\ scoreDisplay' = [kind |-> "result", total |-> totalScore + s]
                        /\ actualLocationMarker' = currentLocationData
                        /\ resultPolyline' = <<guessMarker[1], currentLocationData[1]>>
                        /\ mapView' = "fit"
                        /\ roundScores' = roundScores (+) SetToBag({s})
            /\ UNCHANGED <<currentRound, currentLocationData, guessMarker,
                           playAgainDisplay, imageContainer, roundDisplay,
                           alertOpen, pending, advances, resolution, server>>

\* submitGuessBtn click listener.  The click is delivered whenever the button
\* is displayed; the listener's own first test covers a missing guess.
SubmitGuess ==
    /\ ~alertOpen
    /\ submitDisplay = "block"
    /\ IF guessMarker = Null
       THEN RejectSubmit
       ELSE /\ submitDisabled' = TRUE
            /\ mapClicksEnabled' = FALSE
            /\ submitDisplay' = "none"
            /\ nextDisplay' = "block"
            /\ IF currentLocationData = Null
               THEN /\ scoreDisplay' = [kind |-> "error", total |-> totalScore]
                    /\ UNCHANGED <<totalScore, actualLocationMarker,
                                   resultPolyline, mapView, distance,
                                   scoreForRound, roundScores>>
               ELSE LET d == haversineDistance(guessMarker[1], currentLocationData[1])
                        s == calculateScore(d)
                    IN  /\ distance' = d
                        /\ scoreForRound' = s
                        /\ totalScore' = totalScore + s
                        /\ scoreDisplay' = [kind |-> "result", total |-> totalScore + s]
                        /\ actualLocationMarker' = currentLocationData
                        /\ resultPolyline' = <<guessMarker[1], currentLocationData[1]>>
                        /\ mapView' = "fit"
                        /\ roundScores' = roundScores (+) SetToBag({s})
            /\ UNCHANGED <<currentRound, currentLocationData, guessMarker,
                           playAgainDisplay, imageContainer, roundDisplay,
                           alertOpen, pending, advances, resolution, server>>

\* The player closes the alert; the listener then returns.
DismissAlert ==
    /\ alertOpen
    /\ alertOpen' = FALSE
    /\ UNCHANGED <<currentRound, totalScore, currentLocationData, guessMarker,
                   actualLocationMarker, resultPolyline, mapClicksEnabled,
                   submitDisabled, submitDisplay, nextDisplay, playAgainDisplay,
                   imageContainer, scoreDisplay, roundDisplay, mapView, pending,
                   distance, scoreForRound, roundScores, advances, resolution, server>>

\* nextRoundBtn click listener.
NextRound ==
    /\ ~alertOpen
    /\ nextDisplay = "block"
    /\ (currentRound + 1 < NumLocations => InFlight < MaxPending)
    /\ currentRound' = currentRound + 1
    /\ loadNewRound(currentRound + 1, totalScore, playAgainDisplay)
    /\ advances' = advances + 1
    /\ UNCHANGED <<totalScore, alertOpen, roundScores, server>>

\* Mutant: Play Again forgets to reset totalScore.
PlayAgainKeepsScore ==
    /\ ~alertOpen
    /\ playAgainDisplay = "block"
    /\ InFlight < MaxPending
    /\ currentRound' = 0
    /\ totalScore' = totalScore
    /\ loadNewRound(0, totalScore, "none")
    /\ advances' = 0
    /\ roundScores' = EmptyBag
    /\ UNCHANGED <<alertOpen, server>>

\* playAgainBtn click listener.
PlayAgain ==
    /\ ~alertOpen
    /\ playAgainDisplay = "block"
    /\ InFlight < MaxPending
    /\ currentRound' = 0
    /\ totalScore' = 0
    /\ loadNewRound(0, 0, "none")
    /\ advances' = 0
    /\ roundScores' = EmptyBag
    /\ UNCHANGED <<alertOpen, server>>

\* ---- fetchImageForLocation: the continuation after the awaits ----

FetchDone(r, kind, data) ==
    /\ ~alertOpen
    /\ pending[r] > 0
    /\ pending' = Take(pending, r)
    /\ imageContainer' = [kind |-> kind, loc |-> r.loc]
    /\ currentLocationData' = data
    /\ resolution' = IF r.stale THEN resolution
                     ELSE IF kind = "image" THEN "ok" ELSE "failed"
    /\ UNCHANGED <<currentRound, totalScore, guessMarker, actualLocationMarker,
                   resultPolyline, mapClicksEnabled, submitDisabled,
                   submitDisplay, nextDisplay, playAgainDisplay, scoreDisplay,
                   roundDisplay, mapView, alertOpen, distance, scoreForRound,
                   roundScores, advances, server>>

\* response.ok with imageUrl, coordinates and imageId all present
FetchSuccess(r) == FetchDone(r, "image", <<r.loc>>)

\* response.ok but a field is missing
FetchInvalidData(r) == FetchDone(r, "invalid", currentLocationData)

\* a 4xx or 5xx response
FetchHttpError(r) == FetchDone(r, "httperror", currentLocationData)

\* fetch or response.json() rejected
FetchNetworkError(r) == FetchDone(r, "neterror", currentLocationData)

Next ==
    \/ \E p \in Clicks : MapClick(p)
    \/ SubmitGuess
    \/ DismissAlert
    \/ NextRound
    \/ PlayAgain
    \/ \E r \in Requests : FetchSuccess(r)
    \/ \E r \in Requests : FetchInvalidData(r)
    \/ \E r \in Requests : FetchHttpError(r)
    \/ \E r \in Requests : FetchNetworkError(r)

Spec == Init /\ [][Next]_vars

\* ---- the game with a player who keeps playing ----

\* The player places a first guess in the round.
PlaceGuess == \E p \in Clicks : MapClick(p) /\ mapClicksEnabled /\ guessMarker = Null

\* The player submits the guess placed.
CommitGuess == SubmitGuess /\ guessMarker # Null

\* Some image request in flight ends, one way or another.
FetchEnds ==
    \E r \in Requests :
        FetchSuccess(r) \/ FetchInvalidData(r) \/ FetchHttpError(r) \/ FetchNetworkError(r)

\* The player closes an alert, places a guess when that is possible again and
\* again, submits a placed guess, and clicks Next Round when it is offered;
\* every image request ends.
Fairness ==
    /\ WF_vars(DismissAlert)
    /\ SF_vars(PlaceGuess)
    /\ WF_vars(CommitGuess)
    /\ WF_vars(NextRound)
    /\ WF_vars(FetchEnds)

\* One game from page load, played to its end.
NextLive ==
    \/ \E p \in Clicks : MapClick(p)
    \/ SubmitGuess
    \/ DismissAlert
    \/ NextRound
    \/ \E r \in Requests : FetchSuccess(r)
    \/ \E r \in Requests : FetchInvalidData(r)
    \/ \E r \in Requests : FetchHttpError(r)
    \/ \E r \in Requests : FetchNetworkError(r)

SpecLive == Init /\ [][NextLive]_vars /\ Fairness

\* ---- calculateScore on its own ----

InitScore ==
    /\ currentRound = 0
    /\ totalScore = 0
    /\ currentLocationData = Null
    /\ guessMarker = Null
    /\ actualLocationMarker = Null
    /\ resultPolyline = Null
    /\ mapClicksEnabled = TRUE
    /\ submitDisabled = TRUE
    /\ submitDisplay = "block"
    /\ nextDisplay = "none"
    /\ playAgainDisplay = "none"
    /\ imageContainer = [kind |-> "loading", loc |-> 0]
    /\ scoreDisplay = [kind |-> "score", total |-> 0]
    /\ roundDisplay = [kind |-> "round", n |-> 1]
    /\ mapView = "world"
    /\ alertOpen = FALSE
    /\ pending = IssueFetch(NoRequests, 0)
    /\ distance \in 0 .. MaxDistance
    /\ scoreForRound = NotComputed
    /\ roundScores = EmptyBag
    /\ advances = 0
    /\ resolution = "pending"
    /\ server = ServerIdle

ApplyCalculateScore ==
    /\ scoreForRound = NotComputed
    /\ scoreForRound' = calculateScore(distance)
    /\ UNCHANGED <<currentRound, totalScore, currentLocationData, guessMarker,
                   actualLocationMarker, resultPolyline, mapClicksEnabled,
                   submitDisabled, submitDisplay, nextDisplay, playAgainDisplay,
                   imageContainer, scoreDisplay, roundDisplay, mapView, alertOpen,
                   pending, distance, roundScores, advances, resolution, server>>

NextScore == ApplyCalculateScore

SpecScore == InitScore /\ [][NextScore]_vars

\* ---- the serverless handler: what follows the awaits ----

clientVars ==
    <<currentRound, totalScore, currentLocationData, guessMarker,
      actualLocationMarker, resultPolyline, mapClicksEnabled, submitDisabled,
      submitDisplay, nextDisplay, playAgainDisplay, imageContainer,
      scoreDisplay, roundDisplay, mapView, alertOpen, pending, distance,
      scoreForRound, roundScores, advances, resolution>>

\* Non-ok statuses the provider answers with; 0 stands for a missing status.
ProviderFailures == {0, 404, 429, 500}

\* What `await mapillaryResponse.json()` gives for a non-ok response.
ErrorBodyKinds == {"unparseable", "no error field", "error payload"}

\* One element of mapillaryData.data: an image with its optional fields (each
\* Null or <<"set">>), or Null for a JSON null.
Images ==
    {Null} \cup
    {<<[id |-> "id", original |-> o, thumb |-> t, geometry |-> g, compass |-> c]>> :
        o \in {Null, <<"original">>}, t \in {Null, <<"thumb">>},
        g \in {Null, <<"lonlat">>}, c \in {Null, <<"angle">>}}

\* What `await mapillaryResponse.json()` gives for an ok response: the parse
\* fails, JSON null, an object without data, an empty data array, or data
\* whose first element is an image.
OkBodies ==
    {[kind |-> k, image |-> Null] : k \in {"unparseable", "null", "no data", "empty"}}
    \cup {[kind |-> "images", image |-> i] : i \in Images}

\* Mutant: the rejection is caught and nothing is sent.
OnFetchRejectedSilently(sv) == [sv EXCEPT !.pc = "done"]

\* catch (error): fetch() itself was rejected.
OnFetchRejected(sv) == Respond(sv, 500, ErrorBody("server error"))

\* Mutant: no inner try/catch, so a body that does not parse reaches the outer
\* catch.
OnProviderErrorUnguarded(sv, kind) ==
    LET status == sv.provider[1].status
        got == [sv EXCEPT !.json = <<kind>>]
    IN  IF kind = "unparseable" THEN Respond(got, 500, ErrorBody("server error"))
        ELSE Respond(got, IF status = 0 THEN 502 ELSE status,
                     IF kind = "error payload" THEN ErrorBody("provider's own")
                     ELSE ErrorBody("failed to fetch"))

\* if (!mapillaryResponse.ok) { ... }
OnProviderError(sv, kind) ==
    LET status == sv.provider[1].status
        got == [sv EXCEPT !.json = <<kind>>]
    IN  Respond(got, IF status = 0 THEN 502 ELSE status,
                IF kind = "error payload" THEN ErrorBody("provider's own")
                ELSE ErrorBody("failed to fetch"))

\* The 200 answer built from an image.
ImageAnswer(image) ==
    [imageId |-> image.id,
     imageUrl |-> IF image.original # Null THEN image.original ELSE image.thumb,
     coordinates |-> image.geometry,
     compassAngle |-> image.compass]

\* Mutant: the length of data is not tested, so an empty array is read at [0].
OnProviderOkNoLengthTest(sv, body) ==
    LET got == [sv EXCEPT !.json = <<body.kind>>] IN
    IF body.kind \in {"unparseable", "null", "empty"}
    THEN Respond(got, 500, ErrorBody("server error"))
    ELSE IF body.kind = "no data"
    THEN Respond(got, 404, ErrorBody("no images"))
    ELSE IF body.image = Null
    THEN Respond(got, 500, ErrorBody("server error"))
    ELSE Respond(got, 200, ImageAnswer(body.image[1]))

\* The ok path: parse, then 200 with the first image or 404; whatever throws
\* on the way lands in the outer catch.
OnProviderOk(sv, body) ==
    LET got == [sv EXCEPT !.json = <<body.kind>>] IN
    IF body.kind \in {"unparseable", "null"}
    THEN Respond(got, 500, ErrorBody("server error"))
    ELSE IF body.kind \in {"no data", "empty"}
    THEN Respond(got, 404, ErrorBody("no images"))
    ELSE IF body.image = Null
    THEN Respond(got, 500, ErrorBody("server error"))
    ELSE Respond(got, 200, ImageAnswer(body.image[1]))

ServerValidate ==
    /\ server.pc = "received"
    /\ server' = Validate(server)
    /\ UNCHANGED clientVars

ProviderRejects ==
    /\ server.pc = "awaitFetch"
    /\ server' = OnFetchRejected(server)
    /\ UNCHANGED clientVars

ProviderRespondsOk ==
    /\ server.pc = "awaitFetch"
    /\ server' = [server EXCEPT !.pc = "awaitJson",
                                !.provider = <<[ok |-> TRUE, status |-> 200]>>]
    /\ UNCHANGED clientVars

ProviderRespondsNotOk(status) ==
    /\ server.pc = "awaitFetch"
    /\ server' = [server EXCEPT !.pc = "awaitJson",
                                !.provider = <<[ok |-> FALSE, status |-> status]>>]
    /\ UNCHANGED clientVars

ServerHandleError(kind) ==
    /\ server.pc = "awaitJson"
    /\ ~server.provider[1].ok
    /\ server' = OnProviderError(server, kind)
    /\ UNCHANGED clientVars

ServerHandleOk(body) ==
    /\ server.pc = "awaitJson"
    /\ server.provider[1].ok
    /\ server' = OnProviderOk(server, body)
    /\ UNCHANGED clientVars

InitServer ==
    /\ currentRound = 0
    /\ totalScore = 0
    /\ currentLocationData = Null
    /\ guessMarker = Null
    /\ actualLocationMarker = Null
    /\ resultPolyline = Null
    /\ mapClicksEnabled = TRUE
    /\ submitDisabled = TRUE
    /\ submitDisplay = "block"
    /\ nextDisplay = "none"
    /\ playAgainDisplay = "none"
    /\ imageContainer = [kind |-> "loading", loc |-> 0]
    /\ scoreDisplay = [kind |-> "score", total |-> 0]
    /\ roundDisplay = [kind |-> "round", n |-> 1]
    /\ mapView = "world"
    /\ alertOpen = FALSE
    /\ pending = IssueFetch(NoRequests, 0)
    /\ distance = NotComputed
    /\ scoreForRound = NotComputed
    /\ roundScores = EmptyBag
    /\ advances = 0
    /\ resolution = "pending"
    /\ \E t \in BOOLEAN, a \in QueryValues, b \in QueryValues :
          server = [ServerIdle EXCEPT !.pc = "received", !.token = t,
                                      !.lat = a, !.lon = b]

NextServer ==
    \/ ServerValidate
    \/ ProviderRejects
    \/ ProviderRespondsOk
    \/ \E st \in ProviderFailures : ProviderRespondsNotOk(st)
    \/ \E k \in ErrorBodyKinds : ServerHandleError(k)
    \/ \E b \in OkBodies : ServerHandleOk(b)

SpecServer == InitServer /\ [][NextServer]_vars

\* ---- properties ----

RECURSIVE BagSum(_)
BagSum(b) ==
    IF DOMAIN b = {} THEN 0
    ELSE LET x == CHOOSE y \in DOMAIN b : TRUE
         IN  x * b[x] + BagSum([y \in (DOMAIN b) \ {x} |-> b[y]])

\* The game-over branch of loadNewRound was the last to set up the page.
GameOver == roundDisplay.kind = "gameover"

\* A step in which the submit listener added a round score.
ScoreAdded == BagCardinality(roundScores') > BagCardinality(roundScores)

\* The calculateScore result for `distance` is available.
Computed == scoreForRound # NotComputed

\* C1: after any sequence of clicks and fetch completions, totalScore is the
\* sum of the round scores the submit listener has added since the game last
\* started (page load or Play Again).
C1_TotalIsSumOfRoundScores == totalScore = BagSum(roundScores)

\* C1 witness: two rounds of a game have been scored, for more than one
\* round can give.
C1_Witness ==
    /\ BagCardinality(roundScores) >= 2
    /\ totalScore > MaxScore

\* C2: from a fresh game the game-over state is reached after exactly five
\* Next Round advances and never after fewer.
C2_GameOverAfterFiveAdvances ==
    /\ advances <= 5
    /\ GameOver <=> advances = 5

\* C2 witness: game over, five advances behind it.
C2_Witness == GameOver /\ advances = 5 /\ currentRound = 5

\* C3 (as claimed): a round score is added only when the image resolution the
\* current round issued has completed successfully.
C3_ScoredOnlyAfterOwnResolution ==
    [][ScoreAdded => resolution = "ok"]_vars

\* C4: a Submit Guess click with no guess marker placed is rejected and leaves
\* totalScore, currentRound, mapClicksEnabled and the submit and next buttons
\* as they were.
C4_SubmitWithoutGuessRejected ==
    [][(SubmitGuess /\ guessMarker = Null) =>
         UNCHANGED <<totalScore, currentRound, mapClicksEnabled, submitDisabled,
                     submitDisplay, nextDisplay, roundScores>>]_vars

\* C4 witness: the rejection's alert is up and there is no guess marker.
C4_Witness == alertOpen /\ guessMarker = Null /\ submitDisplay = "block"

\* The listed parts of a freshly started game.
FreshlyStarted ==
    /\ totalScore = 0
    /\ currentRound = 0
    /\ guessMarker = Null
    /\ submitDisabled
    /\ mapClicksEnabled
    /\ imageContainer = [kind |-> "loading", loc |-> 0]
    /\ pending[[loc |-> 0, stale |-> FALSE]] = 1
    /\ currentLocationData = Null

\* C5 (as claimed): Play Again from game over leaves the game as a freshly
\* started one, with no image data carried over from the previous game.
C5_PlayAgainIsFreshGame ==
    [][(GameOver /\ PlayAgain) => FreshlyStarted']_vars

\* C6: once the game is over, totalScore and currentRound do not change, no
\* guess is placed or submitted and no round advance occurs, other than by
\* Play Again.
C6_GameOverIsFrozen ==
    [][GameOver =>
         \/ PlayAgain
         \/ UNCHANGED <<totalScore, currentRound, guessMarker, roundScores,
                        advances, submitDisplay, nextDisplay>>]_vars

\* C6 witness: game over with a score on the board and requests still in
\* flight.
C6_Witness == GameOver /\ totalScore > 0 /\ guessMarker # Null /\ InFlight > 0

\* C7: in every reachable state 0 <= currentRound <= locations.length.
C7_RoundInRange == currentRound \in 0 .. 5

\* C7 witness: the upper end is reached.
C7_Witness == currentRound = 5 /\ playAgainDisplay = "block"

\* C8: for every non-negative distance calculateScore returns an integer in
\* 0..5000.
C8_ScoreInRange == Computed => scoreForRound \in 0 .. 5000

\* C8 witness: a score computed for a distance beyond 2000 km.
C8_Witness == Computed /\ distance > 200000

\* C9: calculateScore(d) is 5000 below 0.25 km, 0 above 2000 km, and in
\* between the integer nearest to 5000 - 2.5 d (halves upwards), which is
\* never negative there; 1000 km gives 2500, 2000 km gives 0, 2000.01 km
\* gives 0.
C9_ScoreFormula ==
    Computed =>
        /\ distance < 25 => scoreForRound = 5000
        /\ distance > 200000 => scoreForRound = 0
        /\ (distance >= 25 /\ distance <= 200000) =>
              /\ 200 * scoreForRound - 100 <= 1000000 - 5 * distance
              /\ 1000000 - 5 * distance < 200 * scoreForRound + 100
              /\ scoreForRound >= 0
        /\ distance = 100000 => scoreForRound = 2500
        /\ distance = 200000 => scoreForRound = 0
        /\ distance = 200001 => scoreForRound = 0

\* C9 witness: the score of 1000 km.
C9_Witness == distance = 100000 /\ scoreForRound = 2500

\* C10 (as claimed): calculateScore(0.25) is 5000.
C10_NearBoundaryInclusive ==
    (Computed /\ distance = 25) => scoreForRound = 5000

\* C10 (amended): calculateScore(0.25) is 4999, the linear-formula value; the
\* near boundary is exclusive, and just below it the score is 5000.
C10_NearBoundaryExclusive ==
    /\ (Computed /\ distance = 25) => scoreForRound = 4999
    /\ (Computed /\ distance = 24) => scoreForRound = 5000

\* C10 witness: the score of exactly 0.25 km.
C10_Witness == distance = 25 /\ scoreForRound = 4999

\* ---- properties of the serverless handler ----

ServerDone == server.pc = "done"
Sent == server.responses
SentStatus == server.responses[1].status

\* -?digits[.digits] or -?.digits, and nothing else.
IsNumericString(str) ==
    LET body == IF str # <<>> /\ str[1] = "-" THEN Tail(str) ELSE str
        idx == DOMAIN body
    IN  /\ \A i \in idx : body[i] \in Digits \cup {"."}
        /\ Cardinality({i \in idx : body[i] = "."}) <= 1
        /\ \E i \in idx : body[i] \in Digits

IsNumericParam(q) == q # Null /\ IsNumericString(q[1])

\* C11: without the credential every request gets 500 with the configuration
\* error, whatever lat and lon are, and no call to the provider is made.
C11_NoCredentialIs500 ==
    ~server.token =>
        /\ server.calls = 0
        /\ server.pc \in {"idle", "received", "done"}
        /\ ServerDone => Sent = <<[status |-> 500, body |-> [error |-> "not configured"]]>>

\* C11 witness: a request with valid coordinates answered without credential.
C11_Witness ==
    /\ ServerDone /\ ~server.token
    /\ server.lat = << <<"1">> >> /\ server.lon = << <<"0">> >>

\* C12 (as claimed): with the credential, a request whose lat or lon is
\* missing or not a numeric string gets 400 and no provider call is made.
C12_NonNumericIs400 ==
    (server.token /\ server.pc # "idle"
        /\ ~(IsNumericParam(server.lat) /\ IsNumericParam(server.lon))) =>
        /\ server.calls = 0
        /\ ServerDone => SentStatus = 400

\* C13: an ok provider response without images (data absent or empty) gets
\* 404, and a non-ok provider response gets 404 only if its own status is 404.
C13_NoImagesIs404 ==
    (ServerDone /\ server.provider # Null) =>
        /\ (server.provider[1].ok /\ server.json[1] \in {"no data", "empty"})
              => SentStatus = 404
        /\ (~server.provider[1].ok /\ SentStatus = 404)
              => server.provider[1].status = 404

\* C13 witness: an ok response with an empty data array, answered.
C13_Witness ==
    /\ ServerDone /\ server.provider # Null /\ server.provider[1].ok
    /\ server.json = <<"empty">> /\ SentStatus = 404

\* C14: a non-ok provider response is answered with the provider's status (502
\* if it has none) and with the provider's payload when that parses and has an
\* error field, else the generic message; a body that does not parse does not
\* make the answer a 500.
C14_UpstreamStatusForwarded ==
    (ServerDone /\ server.provider # Null /\ ~server.provider[1].ok) =>
        /\ server.provider[1].status # 0 => SentStatus = server.provider[1].status
        /\ server.provider[1].status = 0 => SentStatus = 502
        /\ server.json = <<"error payload">>
              => Sent[1].body = [error |-> "provider's own"]
        /\ server.json # <<"error payload">>
              => Sent[1].body = [error |-> "failed to fetch"]
        /\ (server.json = <<"unparseable">> /\ server.provider[1].status # 500)
              => SentStatus # 500

\* C14 witness: a 429 whose body does not parse, answered.
C14_Witness ==
    /\ ServerDone /\ server.provider = <<[ok |-> FALSE, status |-> 429]>>
    /\ server.json = <<"unparseable">>

\* C15: for numeric lat and lon the bounding box sent to the provider is
\* [lon - 0.01, lat - 0.01, lon + 0.01, lat + 0.01], in that order.
C15_BoundingBox ==
    server.calls > 0 =>
        /\ server.bbox = << <<server.lonNum[1] - 100, server.latNum[1] - 100,
                              server.lonNum[1] + 100, server.latNum[1] + 100>> >>
        /\ (server.lat = << <<"1">> >> /\ server.lon = << <<"0">> >>)
              => server.bbox = << <<0 - 100, 9900, 100, 10100>> >>
        /\ (server.lat = << <<".", "1">> >> /\ server.lon = << <<"-", "1">> >>)
              => server.bbox = << <<0 - 10100, 900, 0 - 9900, 1100>> >>

\* C15 witness: the provider was called for lat = .1, lon = -1.
C15_Witness ==
    /\ server.calls = 1
    /\ server.lat = << <<".", "1">> >> /\ server.lon = << <<"-", "1">> >>

\* C20: on every path exactly one response is sent, with status 200, 400,
\* 404, 500, 502 or the provider's own.
C20_ExactlyOneResponse ==
    /\ Len(Sent) <= 1
    /\ ServerDone =>
          /\ Len(Sent) = 1
          /\ \/ SentStatus \in {200, 400, 404, 500, 502}
             \/ server.provider # Null /\ SentStatus = server.provider[1].status

\* C20 witness: the one response carries a status of the provider's own.
C20_Witness == ServerDone /\ Len(Sent) = 1 /\ SentStatus = 429


\* ---- properties of the rounds, continued ----

\* A step in which a request of a superseded round ended.
StaleCompletion ==
    \E r \in Requests : r.stale /\ pending[r] > 0 /\ pending'[r] = pending[r] - 1

\* C16 (as claimed): a response of a superseded round never overwrites
\* currentLocationData or the displayed image.
C16_StaleResponseDiscarded ==
    [][StaleCompletion => UNCHANGED <<currentLocationData, imageContainer>>]_vars

\* C17: between two calls of loadNewRound a round score is added at most
\* once: a score is added only while the round has no result on the map yet
\* and the Submit button is shown, and adding it hides the button.
C17_ScoredAtMostOncePerRound ==
    [][ScoreAdded =>
         /\ actualLocationMarker = Null /\ actualLocationMarker' # Null
         /\ scoreForRound = NotComputed
         /\ submitDisplay = "block" /\ submitDisplay' = "none"]_vars

\* C17 witness: a scored round, waiting for Next Round.
C17_Witness ==
    /\ scoreForRound # NotComputed /\ actualLocationMarker # Null
    /\ submitDisplay = "none" /\ nextDisplay = "block"

C19_FailureMessageStays ==
    resolution = "failed" =>
        /\ imageContainer.kind \in {"invalid", "httperror", "neterror"}
        /\ imageContainer.loc = currentRound

\* A guess was submitted and loadNewRound has not run since: the Next Round
\* button is shown by the submit listener only and hidden by loadNewRound.
Submitted == nextDisplay = "block"

\* C21: between Submit Guess and the following loadNewRound map clicks are
\* off and the Submit button is disabled, and no step moves the guess marker
\* or enables the button.
C21_GuessFixedAfterSubmit ==
    /\ [](Submitted => (~mapClicksEnabled /\ submitDisabled /\ guessMarker # Null))
    /\ [][(Submitted /\ Submitted') =>
            UNCHANGED <<guessMarker, submitDisabled, mapClicksEnabled>>]_vars

\* C21 witness: a submitted guess on the map, clicks off, waiting for Next Round.
C21_Witness ==
    /\ Submitted /\ guessMarker # Null
    /\ ~mapClicksEnabled /\ submitDisabled /\ submitDisplay = "none"

\* C22 (as claimed): on the game-over screen the image container shows the
\* game-over message until Play Again; no late response replaces it.
C22_GameOverMessageStays ==
    GameOver => imageContainer.kind = "gameover"

\* parseFloat on strings of the kinds it meets.
ParseFloatExamples ==
    /\ parseFloat(<<"1">>) = <<10000>>
    /\ parseFloat(<<"1", "0">>) = <<100000>>
    /\ parseFloat(<<"-", "1">>) = <<0 - 10000>>
    /\ parseFloat(<<".", "1">>) = <<1000>>
    /\ parseFloat(<<"1", ".", "0", "1">>) = <<10100>>
    /\ parseFloat(<<"1", ".">>) = <<10000>>
    /\ parseFloat(<<"1", "-">>) = <<10000>>
    /\ parseFloat(<<"1", ".", "1", ".">>) = <<11000>>
    /\ parseFloat(<<"-", ".", "1", "1">>) = <<0 - 1100>>
    /\ parseFloat(<<>>) = Null
    /\ parseFloat(<<"-">>) = Null
    /\ parseFloat(<<".">>) = Null
    /\ parseFloat(<<"-", "-", "1">>) = Null
    /\ parseFloat(<<".", "-">>) = Null

====
